---- MODULE Spec2Model ----
(***************************************************************************)
(* Model of ultralytics/utils/autobatch.py: check_train_batch_size (the    *)
(* subprocess wrapper) and autobatch (the linear-fit batch size            *)
(* estimator).  One behaviour is one call of one of the two functions.     *)
(*                                                                         *)
(* Units: memory is counted in tenths of a GiB, fractions in tenths, so    *)
(* 10 GiB free at fraction 0.6 is f = 100, fraction = 6 and the budget     *)
(* f * fraction is the rational 600/10 tenths of a GiB.  The fit and its   *)
(* solution are computed in exact rational arithmetic; int() truncates     *)
(* toward zero.                                                            *)
(***************************************************************************)
EXTENDS Integers, Sequences, FiniteSets, TLC

VARIABLES
    call,           \* the function the caller invoked
    pc,             \* position inside the called function
    device,         \* next(model.parameters()).device.type
    batch,          \* check_train_batch_size: the batch argument, in tenths
    fraction,       \* the memory fraction in use, in tenths
    batch_size,     \* autobatch: the caller-supplied default batch size
    benchmark,      \* torch.backends.cudnn.benchmark
    tmp_file,       \* the temporary .pt file on disk: "absent" or "exists"
    tmp_file_path,  \* the local variable tmp_file_path: "unbound" or "bound"
    tmp_created,    \* history: the call created a temporary file
    spawned,        \* history: the call started a subprocess
    result,         \* the CompletedProcess of subprocess.run
    pending,        \* what the try statement completes with after finally
    cache_emptied,  \* torch.cuda.empty_cache() was called
    mem,            \* autobatch: the memory counters t, r, a
    counters_read,  \* history: the device memory counters were read
    profiled,       \* history: the profiler was invoked
    results,        \* autobatch: the list profile() returned
    log,            \* the LOGGER calls made, as a set of tags
    outcome,        \* "running", "returned" or "raised"
    ret             \* the value returned to the caller

vars == <<call, pc, device, batch, fraction, batch_size, benchmark, tmp_file,
          tmp_file_path, tmp_created, spawned, result, pending, cache_emptied,
          mem, counters_read, profiled, results, log, outcome, ret>>

wrapperVars == <<tmp_file, tmp_file_path, tmp_created, spawned, result,
                 pending, cache_emptied>>
estimatorVars == <<mem, counters_read, profiled, results>>
inputVars == <<call, device, batch, batch_size, benchmark>>

----------------------------------------------------------------------------
(* Program constants *)

\* DEFAULT_CFG.batch, the framework's default batch size
DEFAULT_CFG_batch == 16

\* batch_sizes = [1, 2, 4, 8, 16]
batch_sizes == <<1, 2, 4, 8, 16>>

\* the upper end of the safe range of line 138
MaxSafeBatch == 1024

\* the default fraction 0.60 of line 38, in tenths
DefaultFraction == 6

----------------------------------------------------------------------------
(* Values *)

\* Python's None as a profile result, and the returned values
None == -1
NoValue == [type |-> "unset", val |-> 0]
PyNone == [type |-> "None", val |-> 0]
PyInt(n) == [type |-> "int", val |-> n]

\* the devices a model's parameters can live on
Devices == {"cpu", "mps", "cuda"}

\* the batch arguments tried, in tenths: -1, 0, 0.5 and 1.0
BatchArgs == {-10, 0, 5, 10}

\* the fraction arguments autobatch is called with, in tenths
FractionArgs == {6, 9}

\* the default batch sizes callers of autobatch supply
DefaultArgs == {16, 2048}

\* memory per profiled batch size, in tenths of a GiB
MemValues == {5, 9, 17, 33, 65}

\* total device memory, in tenths of a GiB
TotalMem == {16, 120}

\* reserved and allocated memory range over 0..MaxReservedGiB GiB, in tenths
MaxReservedGiB == 1
ReservedMem == {10 * k : k \in 0..MaxReservedGiB}

NoResult == [returncode |-> 0, valid |-> FALSE, keys |-> {}, batch_size |-> 0]
NoMem == [t |-> 0, r |-> 0, a |-> 0]
NoPending == [kind |-> "none", val |-> NoValue]

----------------------------------------------------------------------------
(* Shared helpers *)

\* a device test that forgets mps
IsCpuOnly(d) == d = "cpu"

\* device.type in {"cpu", "mps"}
IsCpuClass(d) == d \in {"cpu", "mps"}

Init ==
    /\ call \in {"check_train_batch_size", "autobatch"}
    /\ pc = "start"
    /\ device \in Devices
    /\ batch \in (IF call = "check_train_batch_size" THEN BatchArgs ELSE {-10})
    /\ fraction \in (IF call = "autobatch" THEN FractionArgs ELSE {DefaultFraction})
    /\ batch_size \in (IF call = "autobatch" THEN DefaultArgs ELSE {DEFAULT_CFG_batch})
    /\ benchmark \in (IF call = "autobatch" THEN BOOLEAN ELSE {FALSE})
    /\ tmp_file = "absent"
    /\ tmp_file_path = "unbound"
    /\ tmp_created = FALSE
    /\ spawned = FALSE
    /\ result = NoResult
    /\ pending = NoPending
    /\ cache_emptied = FALSE
    /\ mem = NoMem
    /\ counters_read = FALSE
    /\ profiled = FALSE
    /\ results = <<>>
    /\ log = {}
    /\ outcome = "running"
    /\ ret = NoValue

----------------------------------------------------------------------------
(* check_train_batch_size *)

\* fraction = batch if 0.0 < batch < 1.0 else 0.60
FractionOf(b) == IF 0 < b /\ b < 10 THEN b ELSE DefaultFraction

\* the parameters of autobatch, and the keywords the inline program passes
AutobatchParams == {"model", "imgsz", "fraction", "batch_size"}
ChildCallKeywords == {"imgsz", "fraction", "amp"}

JsonError == [valid |-> TRUE, keys |-> {"error"}, batch_size |-> 0]
JsonBatchSize(b) == [valid |-> TRUE, keys |-> {"batch_size"}, batch_size |-> b]
NotJson == [valid |-> FALSE, keys |-> {}, batch_size |-> 0]

\* The inline program: load the model, call autobatch, print one JSON line;
\* any exception inside its try block is printed as {"error": ...}.  The
\* call raises TypeError when it passes a keyword autobatch does not take.
ChildProgram(loadOk, b) ==
    IF ~loadOk THEN JsonError
    ELSE IF ~(ChildCallKeywords \subseteq AutobatchParams) THEN JsonError
    ELSE JsonBatchSize(b)

\* What the parent reads on stdout: the program's line, or text that is not
\* JSON when something else in the child also wrote to stdout.
ChildStdout(loadOk, b, noise) ==
    IF noise THEN NotJson ELSE ChildProgram(loadOk, b)

\* The inner try of lines 64-73 applied to result.stdout: the exception it
\* raises ("none" when it returns), the value it returns and what it logs.
ParseOutput(out) ==
    IF ~out.valid
    THEN [raises |-> "JSONDecodeError", val |-> NoValue,
          logs |-> {"error:parse_failed_stdout_stderr"}]
    ELSE IF "error" \in out.keys
    THEN [raises |-> "RuntimeError", val |-> NoValue, logs |-> {}]
    ELSE IF "batch_size" \notin out.keys
    THEN [raises |-> "KeyError", val |-> NoValue, logs |-> {}]
    ELSE [raises |-> "none", val |-> PyInt(out.batch_size),
          logs |-> {"info:determined"}]

\* except subprocess.CalledProcessError: three warnings and no return
CalledProcessErrorHandler ==
    [logs |-> {"warning:subprocess_error", "warning:subprocess_stdout",
               "warning:subprocess_stderr"},
     pending |-> [kind |-> "fallthrough", val |-> PyNone]]

\* a handler that forgets its return statement
ExceptionHandlerNoReturn ==
    [logs |-> {"warning:error", "warning:using_default"},
     pending |-> [kind |-> "fallthrough", val |-> PyNone]]

\* except Exception: two warnings and return DEFAULT_CFG.batch
ExceptionHandler ==
    [logs |-> {"warning:error", "warning:using_default"},
     pending |-> [kind |-> "return", val |-> PyInt(DEFAULT_CFG_batch)]]

\* lines 30-38: the device short-circuit and the fraction
CheckDevice ==
    /\ call = "check_train_batch_size" /\ pc = "start"
    /\ IF IsCpuClass(device)
       THEN /\ log' = log \cup {"info:computing", "info:cpu_default"}
            /\ ret' = PyInt(DEFAULT_CFG_batch)
            /\ outcome' = "returned"
            /\ pc' = "done"
            /\ UNCHANGED fraction
       ELSE /\ log' = log \cup {"info:computing"}
            /\ fraction' = FractionOf(batch)
            /\ pc' = "create"
            /\ UNCHANGED <<ret, outcome>>
    /\ UNCHANGED <<inputVars, wrapperVars, estimatorVars>>

\* line 42: tempfile.NamedTemporaryFile(suffix=".pt", delete=False)
CreateTempFile ==
    /\ pc = "create"
    /\ \E ok \in BOOLEAN :
         IF ok
         THEN /\ tmp_file' = "exists"
              /\ tmp_created' = TRUE
              /\ pc' = "save"
         ELSE /\ pc' = "except_Exception"
              /\ UNCHANGED <<tmp_file, tmp_created>>
    /\ UNCHANGED <<inputVars, fraction, tmp_file_path, spawned, result, pending,
                   cache_emptied, estimatorVars, log, outcome, ret>>

\* lines 43-44: torch.save, then tmp_file_path is assigned; leaving the with
\* block closes the file and, with delete=False, keeps it
SaveModel ==
    /\ pc = "save"
    /\ \E ok \in BOOLEAN :
         IF ok
         THEN /\ tmp_file_path' = "bound"
              /\ pc' = "run"
         ELSE /\ pc' = "except_Exception"
              /\ UNCHANGED tmp_file_path
    /\ UNCHANGED <<inputVars, fraction, tmp_file, tmp_created, spawned, result,
                   pending, cache_emptied, estimatorVars, log, outcome, ret>>

\* the batch sizes a child that reached its print of batch_size could report
ChildBatchSizes == {4, 16}

\* lines 47-61: subprocess.run(..., capture_output=True, text=True, check=True)
RunSubprocess ==
    /\ pc = "run"
    /\ \E started \in BOOLEAN, code \in {0, 1}, loadOk \in BOOLEAN,
          noise \in BOOLEAN, b \in ChildBatchSizes :
         IF ~started
         THEN /\ pc' = "except_Exception"
              /\ UNCHANGED <<spawned, result>>
         ELSE /\ spawned' = TRUE
              /\ result' = [returncode |-> code] @@
                           (IF code = 0 THEN ChildStdout(loadOk, b, noise)
                            ELSE NotJson)
              /\ pc' = IF code = 0 THEN "parse" ELSE "except_CalledProcessError"
    /\ UNCHANGED <<inputVars, fraction, tmp_file, tmp_file_path, tmp_created,
                   pending, cache_emptied, estimatorVars, log, outcome, ret>>

\* lines 64-73: parse stdout; return batch_size or raise into the outer try
ParseStdout ==
    /\ pc = "parse"
    /\ LET p == ParseOutput(result) IN
         /\ log' = log \cup p.logs
         /\ IF p.raises = "none"
            THEN /\ pending' = [kind |-> "return", val |-> p.val]
                 /\ pc' = "finally"
            ELSE /\ pc' = "except_Exception"
                 /\ UNCHANGED pending
    /\ UNCHANGED <<inputVars, fraction, tmp_file, tmp_file_path, tmp_created,
                   spawned, result, cache_emptied, estimatorVars, outcome, ret>>

\* lines 75-78
HandleCalledProcessError ==
    /\ pc = "except_CalledProcessError"
    /\ log' = log \cup CalledProcessErrorHandler.logs
    /\ pending' = CalledProcessErrorHandler.pending
    /\ pc' = "finally"
    /\ UNCHANGED <<inputVars, fraction, tmp_file, tmp_file_path, tmp_created,
                   spawned, result, cache_emptied, estimatorVars, outcome, ret>>

\* lines 79-82
HandleException ==
    /\ pc = "except_Exception"
    /\ log' = log \cup ExceptionHandler.logs
    /\ pending' = ExceptionHandler.pending
    /\ pc' = "finally"
    /\ UNCHANGED <<inputVars, fraction, tmp_file, tmp_file_path, tmp_created,
                   spawned, result, cache_emptied, estimatorVars, outcome, ret>>

\* lines 84-87: tmp_file_path.unlink(missing_ok=True); torch.cuda.empty_cache().
\* Reading tmp_file_path while it is unbound raises UnboundLocalError, which
\* replaces the pending return; otherwise the file is removed, the cache is
\* emptied and the try statement completes as pending says (falling off the
\* end of the function returns None).
Finally ==
    /\ pc = "finally"
    /\ IF tmp_file_path = "unbound"
       THEN /\ outcome' = "raised"
            /\ UNCHANGED <<tmp_file, cache_emptied, ret>>
       ELSE /\ tmp_file' = "absent"
            /\ cache_emptied' = TRUE
            /\ outcome' = "returned"
            /\ ret' = pending.val
    /\ pc' = "done"
    /\ UNCHANGED <<inputVars, fraction, tmp_file_path, tmp_created, spawned,
                   result, pending, estimatorVars, log>>

----------------------------------------------------------------------------
(* autobatch *)

Abs(x) == IF x < 0 THEN -x ELSE x

\* int(a / b) for b # 0: Python's int() truncates toward zero
TruncDiv(a, b) ==
    LET q == Abs(a) \div Abs(b)
    IN IF a = 0 \/ ((a < 0) = (b < 0)) THEN q ELSE -q

RECURSIVE SumSeq(_)
SumSeq(s) == IF s = <<>> THEN 0 ELSE Head(s) + SumSeq(Tail(s))

\* [x[2] for x in results if x]: the memory of every entry that is not None
RECURSIVE MemoryOf(_)
MemoryOf(rs) ==
    IF rs = <<>> THEN <<>>
    ELSE IF Head(rs) = None THEN MemoryOf(Tail(rs))
    ELSE <<Head(rs)>> \o MemoryOf(Tail(rs))

\* batch_sizes[: len(y)]
FitX(y) == SubSeq(batch_sizes, 1, Len(y))

\* a least-squares fit whose determinant forgets to square the sum of x
polyfitUnsquared(x, y) ==
    LET n == Len(y)
        Sx == SumSeq(x)
        Sy == SumSeq(y)
        Sxx == SumSeq([k \in 1..n |-> x[k] * x[k]])
        Sxy == SumSeq([k \in 1..n |-> x[k] * y[k]])
        D == n * Sxx - Sx
        N == n * Sxy - Sx * Sy
    IN IF n = 0 THEN [raises |-> TRUE, mNum |-> 0, cNum |-> 0, den |-> 1]
       ELSE IF n = 1
       THEN [raises |-> FALSE, mNum |-> y[1], cNum |-> y[1] * x[1], den |-> 2 * x[1]]
       ELSE [raises |-> FALSE, mNum |-> n * N, cNum |-> Sy * D - N * Sx, den |-> n * D]

\* np.polyfit(x, y, deg=1) as the rationals slope = mNum / den and
\* intercept = cNum / den, den > 0.  An empty x raises.  One point is rank
\* deficient: lstsq returns the minimum-norm solution of the column-scaled
\* system, slope = y / (2 x) and intercept = y / 2.  Two or more points with
\* distinct x give the least-squares line.
polyfit(x, y) ==
    LET n == Len(y)
        Sx == SumSeq(x)
        Sy == SumSeq(y)
        Sxx == SumSeq([k \in 1..n |-> x[k] * x[k]])
        Sxy == SumSeq([k \in 1..n |-> x[k] * y[k]])
        D == n * Sxx - Sx * Sx
        N == n * Sxy - Sx * Sy
    IN IF n = 0 THEN [raises |-> TRUE, mNum |-> 0, cNum |-> 0, den |-> 1]
       ELSE IF n = 1
       THEN [raises |-> FALSE, mNum |-> y[1], cNum |-> y[1] * x[1], den |-> 2 * x[1]]
       ELSE [raises |-> FALSE, mNum |-> n * N, cNum |-> Sy * D - N * Sx, den |-> n * D]

\* f = t - (r + a)
FreeMem(m) == m.t - (m.r + m.a)

\* a solution that rounds up instead of truncating
SolveCeil(p, f, frac) ==
    TruncDiv(f * frac * p.den - 10 * p.cNum, 10 * p.mNum) + 1

\* int((f * fraction - p[1]) / p[0]), fraction in tenths; p[0] # 0
Solve(p, f, frac) ==
    TruncDiv(f * frac * p.den - 10 * p.cNum, 10 * p.mNum)

\* results.index(None), as a 1-based position
RECURSIVE IndexOfNone(_)
IndexOfNone(rs) == IF Head(rs) = None THEN 1 ELSE 1 + IndexOfNone(Tail(rs))

HasNone(rs) == \E k \in 1..Len(rs) : rs[k] = None

Max(a, b) == IF a >= b THEN a ELSE b

\* a clamp that selects the failed candidate itself
ClampToFailed(b, rs) ==
    IF HasNone(rs) /\ b >= batch_sizes[IndexOfNone(rs)]
    THEN batch_sizes[IndexOfNone(rs)]
    ELSE b

\* lines 134-137: if None in results and b >= batch_sizes[i], then
\* b = batch_sizes[max(i - 1, 0)]  (i is 0-based in the source)
Clamp(b, rs) ==
    IF HasNone(rs) /\ b >= batch_sizes[IndexOfNone(rs)]
    THEN batch_sizes[Max(IndexOfNone(rs) - 1, 1)]
    ELSE b

\* b < 1 or b > 1024
OutOfRange(b) == b < 1 \/ b > MaxSafeBatch

\* a range check without its upper end
SafeRangeNoUpper(b, default) == IF b < 1 THEN default ELSE b

\* lines 138-140: if b < 1 or b > 1024: b = batch_size
SafeRange(b, default) == IF OutOfRange(b) THEN default ELSE b

\* lines 131-144: the fit and the batch size it gives, or the exception.
\* A zero slope makes the quotient inf or nan, and int() of it raises.
Estimate(rs, f, frac, default) ==
    LET y == MemoryOf(rs)
        p == polyfit(FitX(y), y)
    IN IF p.raises \/ p.mNum = 0
       THEN [raises |-> TRUE, p |-> p, solved |-> 0, clamped |-> 0, b |-> default]
       ELSE LET b0 == Solve(p, f, frac)
                b1 == Clamp(b0, rs)
            IN [raises |-> FALSE, p |-> p, solved |-> b0, clamped |-> b1,
                b |-> SafeRange(b1, default)]

\* lines 104-109
AbCheckDevice ==
    /\ call = "autobatch" /\ pc = "start"
    /\ IF IsCpuClass(device)
       THEN /\ log' = log \cup {"info:computing", "info:cuda_only_default"}
            /\ ret' = PyInt(batch_size)
            /\ outcome' = "returned"
            /\ pc' = "done"
       ELSE /\ log' = log \cup {"info:computing"}
            /\ pc' = "benchmark"
            /\ UNCHANGED <<ret, outcome>>
    /\ UNCHANGED <<inputVars, fraction, wrapperVars, estimatorVars>>

\* lines 110-112
AbCheckBenchmark ==
    /\ pc = "benchmark"
    /\ IF benchmark
       THEN /\ log' = log \cup {"info:benchmark_default"}
            /\ ret' = PyInt(batch_size)
            /\ outcome' = "returned"
            /\ pc' = "done"
       ELSE /\ pc' = "inspect"
            /\ UNCHANGED <<log, ret, outcome>>
    /\ UNCHANGED <<inputVars, fraction, wrapperVars, estimatorVars>>

\* lines 115-122: total, reserved and allocated memory of the device (the
\* caching allocator reserves at least what it has allocated)
AbInspectMemory ==
    /\ pc = "inspect"
    /\ \E t \in TotalMem, r \in ReservedMem, a \in ReservedMem :
         /\ a <= r
         /\ mem' = [t |-> t, r |-> r, a |-> a]
    /\ counters_read' = TRUE
    /\ log' = log \cup {"info:memory"}
    /\ pc' = "profile"
    /\ UNCHANGED <<inputVars, fraction, wrapperVars, profiled, results,
                   outcome, ret>>

\* lines 125-128: profile(img, model, n=3, device=device) returns one entry
\* per batch size, None for a size that failed; or it raises
AbProfile ==
    /\ pc = "profile"
    /\ profiled' = TRUE
    /\ \/ /\ results' \in [1..Len(batch_sizes) -> MemValues \cup {None}]
          /\ pc' = "fit"
       \/ /\ pc' = "except"
          /\ UNCHANGED results
    /\ UNCHANGED <<inputVars, fraction, wrapperVars, mem, counters_read,
                   log, outcome, ret>>

\* lines 131-144
AbFit ==
    /\ pc = "fit"
    /\ LET e == Estimate(results, FreeMem(mem), fraction, batch_size) IN
         IF e.raises
         THEN /\ pc' = "except"
              /\ UNCHANGED <<log, ret, outcome>>
         ELSE /\ log' = log \cup {"info:using"} \cup
                        (IF OutOfRange(e.clamped) THEN {"info:anomaly"} ELSE {})
              /\ ret' = PyInt(e.b)
              /\ outcome' = "returned"
              /\ pc' = "done"
    /\ UNCHANGED <<inputVars, fraction, wrapperVars, estimatorVars>>

\* lines 145-147
AbExcept ==
    /\ pc = "except"
    /\ log' = log \cup {"warning:error_default"}
    /\ ret' = PyInt(batch_size)
    /\ outcome' = "returned"
    /\ pc' = "done"
    /\ UNCHANGED <<inputVars, fraction, wrapperVars, estimatorVars>>

----------------------------------------------------------------------------

Next ==
    \/ CheckDevice
    \/ CreateTempFile
    \/ SaveModel
    \/ RunSubprocess
    \/ ParseStdout
    \/ HandleCalledProcessError
    \/ HandleException
    \/ Finally
    \/ AbCheckDevice
    \/ AbCheckBenchmark
    \/ AbInspectMemory
    \/ AbProfile
    \/ AbFit
    \/ AbExcept

Spec == Init /\ [][Next]_vars

----------------------------------------------------------------------------
(* Properties *)

WrapperDone == call = "check_train_batch_size" /\ pc = "done"
EstimatorDone == call = "autobatch" /\ pc = "done"
\* autobatch returned from line 144, with or without the anomaly fallback
ReturnedFromFit == EstimatorDone /\ "info:using" \in log
\* autobatch returned the batch size it computed, not the default
ReturnedComputed == ReturnedFromFit /\ "info:anomaly" \notin log
TheFit == polyfit(FitX(MemoryOf(results)), MemoryOf(results))
FirstFail == batch_sizes[IndexOfNone(results)]

\* C1: check_train_batch_size never propagates an exception to its caller:
\* every call ends by returning a value.
C1_NeverRaises ==
    call = "check_train_batch_size" => outcome # "raised"

\* C2: when the subprocess exits with a non-zero status, the call logs the
\* error with the subprocess stdout and stderr and returns DEFAULT_CFG.batch.
C2_NonZeroExitReturnsDefault ==
    (WrapperDone /\ spawned /\ result.returncode # 0) =>
        /\ {"warning:subprocess_error", "warning:subprocess_stdout",
            "warning:subprocess_stderr"} \subseteq log
        /\ outcome = "returned"
        /\ ret = PyInt(DEFAULT_CFG_batch)

\* C3: a call that created a temporary model file ends with the file removed
\* and the cached device memory released, on every path.
C3_TempFileRemoved ==
    (WrapperDone /\ tmp_created) => (tmp_file = "absent" /\ cache_emptied)

\* C4 as stated: if profiling first fails at index i, the returned batch size
\* is strictly less than the batch size at index i, for every i in 0..4.
C4_BelowFirstFailure ==
    (EstimatorDone /\ profiled /\ results # <<>> /\ HasNone(results)) =>
        ret.val < FirstFail

\* C4 amended: with a first failure at index i, a call that returns the batch
\* size it computed returns less than batch_sizes[i] when i >= 1 and returns
\* batch_sizes[0] = 1 when i = 0; a call that falls back (anomaly or
\* exception) returns the supplied default unchanged.
C4_ClampedBelowFailure ==
    (EstimatorDone /\ profiled /\ results # <<>> /\ HasNone(results)) =>
        IF ReturnedComputed
        THEN IF IndexOfNone(results) >= 2
             THEN ret.val < FirstFail
             ELSE ret.val = batch_sizes[1]
        ELSE ret.val = batch_size

\* a first failure at batch size 8 with a solution of at least 8: clamped to 4
C4_Witness ==
    /\ ReturnedComputed
    /\ HasNone(results) /\ IndexOfNone(results) = 4
    /\ Solve(TheFit, FreeMem(mem), fraction) >= 8
    /\ ret = PyInt(4)

\* C5 as stated: the batch size autobatch returns is an integer in
\* [1, 1024] on every path.
C5_AlwaysInRange ==
    EstimatorDone => (ret.type = "int" /\ ret.val \in 1..MaxSafeBatch)

\* C5 amended: autobatch returns an integer that is either in [1, 1024] or
\* the supplied default unchanged, so it is in [1, 1024] whenever the default
\* is; whenever the batch size computed after clamping is below 1 or above
\* 1024, the supplied default is returned.
C5_InRangeOrDefault ==
    EstimatorDone =>
        /\ outcome = "returned" /\ ret.type = "int"
        /\ ret.val \in 1..MaxSafeBatch \/ ret.val = batch_size
        /\ ReturnedComputed => ret.val \in 1..MaxSafeBatch
        /\ (ReturnedFromFit /\ ~ReturnedComputed) => ret.val = batch_size

\* a solution above 1024 replaced by the default 16
C5_Witness ==
    /\ ReturnedFromFit
    /\ Solve(TheFit, FreeMem(mem), fraction) > MaxSafeBatch
    /\ batch_size = 16 /\ ret = PyInt(16)

\* C6: with exit status 0 and a stdout that is not JSON, or a JSON object
\* with an error field, the call logs the problem and returns
\* DEFAULT_CFG.batch without raising.
C6_BadOutputReturnsDefault ==
    (WrapperDone /\ spawned /\ result.returncode = 0
        /\ (~result.valid \/ "error" \in result.keys)) =>
        /\ outcome = "returned"
        /\ ret = PyInt(DEFAULT_CFG_batch)
        /\ {"warning:error", "warning:using_default"} \subseteq log
        /\ ~result.valid => "error:parse_failed_stdout_stderr" \in log

\* stdout that is not JSON after a clean exit
C6_Witness ==
    /\ WrapperDone /\ spawned /\ result.returncode = 0 /\ ~result.valid
    /\ ret = PyInt(DEFAULT_CFG_batch)

\* C7: free memory 10 GiB, fraction 0.6, samples 0.5, 0.9, 1.7, 6.5 GiB at
\* batch sizes 1, 2, 4, 16 and a failure at 8: autobatch returns 4.
C7_FailedAtEightReturnsFour ==
    (ReturnedFromFit /\ results = <<5, 9, 17, None, 65>>
        /\ FreeMem(mem) = 100 /\ fraction = 6) =>
        ret = PyInt(4)

\* C8: on a cpu or mps device check_train_batch_size returns the default
\* without a temporary file or a subprocess, and autobatch returns the
\* supplied default without the profiler or the memory counters.
C8_CpuShortCircuit ==
    device \in {"cpu", "mps"} =>
        /\ ~tmp_created /\ tmp_file = "absent" /\ ~spawned
        /\ ~profiled /\ ~counters_read
        /\ pc \in {"start", "done"}
        /\ pc = "done" =>
             /\ outcome = "returned"
             /\ ret = PyInt(IF call = "autobatch" THEN batch_size
                            ELSE DEFAULT_CFG_batch)

\* a finished wrapper call on an mps device
C8_Witness ==
    WrapperDone /\ device = "mps" /\ ret = PyInt(DEFAULT_CFG_batch)

\* the memory the fitted line p predicts at batch size b is at most
\* f * fraction:  (mNum * b + cNum) / den <= f * frac / 10
PredictedWithinBudget(p, b, f, frac) ==
    10 * (p.mNum * b + p.cNum) <= f * frac * p.den

\* C9 as stated: with no failed candidate, the memory the fitted line
\* predicts at the returned batch size does not exceed free_memory x
\* fraction, for every sample sequence, budget and fraction.
C9_PredictedWithinBudget ==
    (ReturnedFromFit /\ ~HasNone(results)) =>
        PredictedWithinBudget(TheFit, ret.val, FreeMem(mem), fraction)

\* C9 amended: with no failed candidate, a fitted line of positive slope and
\* a truncated solution in [1, 1024] (so that the solution itself is
\* returned), the memory the fitted line predicts at the returned batch size
\* does not exceed free_memory x fraction.
C9_PredictedWithinBudgetWhenSolved ==
    (ReturnedComputed /\ ~HasNone(results) /\ TheFit.mNum > 0) =>
        /\ ret.val = Solve(TheFit, FreeMem(mem), fraction)
        /\ PredictedWithinBudget(TheFit, ret.val, FreeMem(mem), fraction)

\* a full sample sequence that is not on one line, solved within the range
C9_Witness ==
    /\ ReturnedComputed /\ ~HasNone(results) /\ TheFit.mNum > 0
    /\ results = <<5, 9, 9, 33, 65>>
    /\ ret.val > 1

\* C10: free memory 10 GiB, fraction 0.6 and samples 0.5, 0.9, 1.7, 3.3,
\* 6.5 GiB: slope 0.4, intercept 0.1, solution 14.75, returned 14.
C10_FullFitReturnsFourteen ==
    (call = "autobatch" /\ pc \in {"fit", "done"}
        /\ results = <<5, 9, 17, 33, 65>>
        /\ FreeMem(mem) = 100 /\ fraction = 6) =>
        /\ TheFit.mNum = 4 * TheFit.den
        /\ TheFit.cNum = 1 * TheFit.den
        /\ 4 * (FreeMem(mem) * fraction * TheFit.den - 10 * TheFit.cNum)
              = 59 * (10 * TheFit.mNum)
        /\ pc = "done" => (ReturnedComputed /\ ret = PyInt(14))

\* the scenario's call has returned
C10_Witness ==
    /\ EstimatorDone /\ results = <<5, 9, 17, 33, 65>>
    /\ FreeMem(mem) = 100 /\ fraction = 6
    /\ ret = PyInt(14)

\* the batch sizes at which the non-failed entries of rs were measured
MeasuredAt(rs) ==
    LET RECURSIVE From(_)
        From(k) == IF k > Len(rs) THEN <<>>
                   ELSE IF rs[k] = None THEN From(k + 1)
                   ELSE <<batch_sizes[k]>> \o From(k + 1)
    IN From(1)

\* C11: the k-th memory value used in the fit has as its x-coordinate the
\* batch size of the candidate that produced it, for every profile result
\* sequence, also when a failed candidate is followed by a succeeding one.
C11_FitPairsOwnBatchSize ==
    (call = "autobatch" /\ pc \in {"fit", "done"} /\ results # <<>>) =>
        FitX(MemoryOf(results)) = MeasuredAt(results)

====
